---- MODULE Spec2Model ----
(***************************************************************************)
(* Ticket tracker (src/App.tsx): the ticket collection held by             *)
(* TicketTrackerMobile, the handlers that mutate it, and the screen        *)
(* (cards, TicketForm, ConfirmDialog) through which a user reaches them.   *)
(*                                                                         *)
(* Text is a sequence of segments: a segment is either one whitespace      *)
(* character or a run of text that starts and ends with a non-whitespace   *)
(* character.  String.prototype.trim only looks at the two ends, so this   *)
(* keeps everything trim() and the emptiness tests depend on.              *)
(* An optional field (rating?, ticketId?) is a record field that is        *)
(* absent from the record's domain.                                        *)
(*                                                                         *)
(* TicketForm keeps title, description and status in local state that      *)
(* exists only while the form is mounted, is written only by its inputs    *)
(* and is read only by handleSubmit.  A press of the save button is        *)
(* therefore modelled with the local state the user has brought the form   *)
(* to (FormStates) as its input.                                           *)
(*                                                                         *)
(* prev, lastAction, issued and nCalls are history variables: the          *)
(* collection before the last handler ran, what that handler was, the ids  *)
(* generateId has returned, and the number of handler calls.               *)
(*                                                                         *)
(* Three specifications share Init:                                        *)
(*   Spec           the application as a user drives it through the screen *)
(*   StoreSpec      the handlers called directly with any arguments        *)
(*   CollisionSpec  the sessions of Spec in which generateId repeats an id *)
(***************************************************************************)
EXTENDS Integers, Sequences, FiniteSets, TLC

VARIABLES tickets, isFormOpen, editingTicket, deleteConfirm,
          prev, lastAction, issued, nCalls

vars == <<tickets, isFormOpen, editingTicket, deleteConfirm,
          prev, lastAction, issued, nCalls>>

(***************************************************************************)
(* Bounds of the model.                                                    *)
(***************************************************************************)
\* handler calls (create, update, delete, status change, rate) in one run
MaxCalls == 2

(***************************************************************************)
(* Types and sample data.                                                  *)
(***************************************************************************)
TicketStatus == {"Created", "Under Assistance", "Completed"}

SAMPLE_TICKETS ==
  << [id |-> "1", title |-> <<"Login button not responding">>,
      description |-> <<"The login button does not work on mobile devices when tapped multiple times.">>,
      status |-> "Completed", createdAt |-> "2025-10-05 14:32", rating |-> 5],
     [id |-> "2", title |-> <<"Dashboard loading slowly">>,
      description |-> <<"Dashboard takes more than 10 seconds to load all widgets and data.">>,
      status |-> "Under Assistance", createdAt |-> "2025-10-06 09:15"],
     [id |-> "3", title |-> <<"Email notifications not sent">>,
      description |-> <<"Users report not receiving email notifications for ticket updates.">>,
      status |-> "Created", createdAt |-> "2025-10-06 16:45"],
     [id |-> "4", title |-> <<"Profile picture upload fails">>,
      description |-> <<"Error message appears when trying to upload profile pictures larger than 2MB.">>,
      status |-> "Completed", createdAt |-> "2025-10-04 11:20", rating |-> 4],
     [id |-> "5", title |-> <<"Search function returns no results">>,
      description |-> <<"The search bar does not return any results even with valid keywords.">>,
      status |-> "Under Assistance", createdAt |-> "2025-10-07 08:00"] >>

\* the stars StarRating renders
Stars == {1, 2, 3, 4, 5}

(***************************************************************************)
(* Text: trim() and truthiness.                                            *)
(***************************************************************************)
Whitespace == {" ", "\t", "\n"}

RECURSIVE TrimStart(_)
TrimStart(s) ==
  IF s # <<>> /\ Head(s) \in Whitespace THEN TrimStart(Tail(s)) ELSE s

RECURSIVE TrimEnd(_)
TrimEnd(s) ==
  IF s # <<>> /\ s[Len(s)] \in Whitespace
    THEN TrimEnd(SubSeq(s, 1, Len(s) - 1))
    ELSE s

\* String.prototype.trim
Trim(s) == TrimEnd(TrimStart(s))

\* a string is falsy exactly when it is empty
FalsyText(s) == s = <<>>

\* what the user can type into the title and description inputs
TitleInputs == { <<>>, <<" ">>, <<" ", "Printer jam", "\n">> }
DescriptionInputs == { <<>>, <<"\t", " ">>, <<"Paper stuck in tray 2", " ">> }

(***************************************************************************)
(* Utilities: generateId and formatDate.                                   *)
(***************************************************************************)
\* Date.now() readings, in milliseconds from the start of the session; Date.now()
\* is wall-clock time, so a later call may return the same or an earlier value
Times == {0, 1}

\* Math.random().toString(36): "0" or "0." followed by base-36 digits
RandomStrings ==
  { <<"0", ".", "4", "f", "z", "y", "o", "8", "2", "m", "v", "q">>,
    <<"0", ".", "4", "f", "z", "y", "o", "8", "2", "m", "v", "z">>,
    <<"0", ".", "k", "3">> }

Min(a, b) == IF a < b THEN a ELSE b

\* String.prototype.substr(start, length) on a sequence of characters
Substr(s, start, length) == SubSeq(s, start + 1, Min(Len(s), start + length))

RECURSIVE Join(_)
Join(s) == IF s = <<>> THEN "" ELSE Head(s) \o Join(Tail(s))

\* `ticket_${Date.now()}_${Math.random().toString(36).substr(2, 9)}`
generateId(now, random) ==
  "ticket_" \o ToString(now) \o "_" \o Join(Substr(random, 2, 9))

\* String(n).padStart(2, '0')
PadStart2(n) == IF n < 10 THEN "0" \o ToString(n) ELSE ToString(n)

\* what `new Date()` shows through its getters (getMonth is 0-based)
Dates ==
  { [year |-> 2025, month |-> 9, date |-> 8, hours |-> 9, minutes |-> 5] }

formatDate(d) ==
  ToString(d.year) \o "-" \o PadStart2(d.month + 1) \o "-" \o PadStart2(d.date)
    \o " " \o PadStart2(d.hours) \o ":" \o PadStart2(d.minutes)

(***************************************************************************)
(* Optional values.                                                        *)
(***************************************************************************)
Undefined == [undefined |-> TRUE]

HasRating(t) == "rating" \in DOMAIN t

\* !ticket.rating
FalsyRating(t) == IF HasRating(t) THEN t.rating = 0 ELSE TRUE

\* object spread { ...t, ...data }
Spread(t, data) ==
  [f \in (DOMAIN t) \cup (DOMAIN data) |->
     IF f \in DOMAIN data THEN data[f] ELSE t[f]]

(***************************************************************************)
(* The state updates of the handlers of TicketTrackerMobile.               *)
(***************************************************************************)
newTicket(data, id, createdAt) ==
  [id |-> id, title |-> data.title, description |-> data.description,
   status |-> "Created", createdAt |-> createdAt]

\* mutant of handleCreateTicket: [...prev, newTicket]
handleCreateTicketAppends(list, data, id, createdAt) ==
  list \o <<newTicket(data, id, createdAt)>>

\* setTickets((prev) => [newTicket, ...prev])
handleCreateTicket(list, data, id, createdAt) ==
  <<newTicket(data, id, createdAt)>> \o list

\* mutant of handleUpdateTicket: { ...editingTicket, ...data }
handleUpdateTicketFromSnapshot(list, editing, data) ==
  IF editing = Undefined
    THEN list
    ELSE LET F(t) == IF t.id = editing.id THEN Spread(editing, data) ELSE t
         IN  [i \in 1 .. Len(list) |-> F(list[i])]

\* prev.map((t) => (t.id === editingTicket.id ? { ...t, ...data } : t))
handleUpdateTicket(list, editing, data) ==
  IF editing = Undefined
    THEN list
    ELSE LET F(t) == IF t.id = editing.id THEN Spread(t, data) ELSE t
         IN  [i \in 1 .. Len(list) |-> F(list[i])]

\* mutant of handleDeleteTicket: prev.filter((t) => t.id === id)
handleDeleteTicketInverted(list, id) ==
  LET Keep(t) == t.id = id IN SelectSeq(list, Keep)

\* prev.filter((t) => t.id !== id)
handleDeleteTicket(list, id) ==
  LET Keep(t) == t.id # id IN SelectSeq(list, Keep)

StatusRank(status) ==
  CASE status = "Created" -> 0
    [] status = "Under Assistance" -> 1
    [] status = "Completed" -> 2

\* mutant of handleStatusChange: ignores a status that is not a step forward
handleStatusChangeForwardOnly(list, id, status) ==
  LET F(t) == IF t.id = id /\ StatusRank(status) = StatusRank(t.status) + 1
                THEN Spread(t, [status |-> status])
                ELSE t
  IN  [i \in 1 .. Len(list) |-> F(list[i])]

\* prev.map((t) => (t.id === id ? { ...t, status } : t))
handleStatusChange(list, id, status) ==
  LET F(t) == IF t.id = id THEN Spread(t, [status |-> status]) ELSE t
  IN  [i \in 1 .. Len(list) |-> F(list[i])]

\* mutant of handleRate: keeps a rating that is already there
handleRateOnce(list, id, rating) ==
  LET F(t) == IF t.id = id /\ ~HasRating(t)
                THEN Spread(t, [rating |-> rating])
                ELSE t
  IN  [i \in 1 .. Len(list) |-> F(list[i])]

\* prev.map((t) => (t.id === id ? { ...t, rating } : t))
handleRate(list, id, rating) ==
  LET F(t) == IF t.id = id THEN Spread(t, [rating |-> rating]) ELSE t
  IN  [i \in 1 .. Len(list) |-> F(list[i])]

(***************************************************************************)
(* TicketForm.                                                             *)
(***************************************************************************)
\* useState(ticket?.title || ''), useState(ticket?.description || ''),
\* useState(ticket?.status || 'Created')
TicketForm(ticket) ==
  IF ticket = Undefined
    THEN [title |-> <<>>, description |-> <<>>, status |-> "Created"]
    ELSE [title |-> ticket.title, description |-> ticket.description,
          status |-> ticket.status]

canEditContent(ticket) ==
  IF ticket = Undefined THEN TRUE ELSE ticket.status = "Created"

isEditing(ticket) == ticket # Undefined

\* the local states the inputs can bring a form mounted with `ticket` to:
\* the text inputs are editable only when canEditContent, the status options
\* are rendered only when isEditing
FormStates(ticket) ==
  LET initial == TicketForm(ticket)
  IN  { form \in [title : {initial.title} \cup TitleInputs,
                  description : {initial.description} \cup DescriptionInputs,
                  status : TicketStatus] :
          /\ canEditContent(ticket) \/ (form.title = initial.title
                                        /\ form.description = initial.description)
          /\ isEditing(ticket) \/ form.status = initial.status }

\* mutants of SubmitRejected: without trim(); without the description
SubmitRejectedUntrimmed(form) ==
  IF FalsyText(form.title) THEN TRUE ELSE FalsyText(form.description)

SubmitRejectedTitleOnly(form) == FalsyText(Trim(form.title))

\* if (!title.trim() || !description.trim()) return;
SubmitRejected(form) ==
  IF FalsyText(Trim(form.title)) THEN TRUE ELSE FalsyText(Trim(form.description))

\* { title: title.trim(), description: description.trim(), status }
SubmitData(form) ==
  [title |-> Trim(form.title), description |-> Trim(form.description),
   status |-> form.status]

\* a Modal covers the screen: the cards and the add button take presses only
\* while neither the form nor the confirmation dialog is visible
NoModal == ~isFormOpen /\ ~deleteConfirm.visible

Init ==
  /\ tickets = SAMPLE_TICKETS
  /\ isFormOpen = FALSE
  /\ editingTicket = Undefined
  /\ deleteConfirm = [visible |-> FALSE]
  /\ prev = SAMPLE_TICKETS
  /\ lastAction = [op |-> "none"]
  /\ issued = <<>>
  /\ nCalls = 0

Quiet == UNCHANGED <<prev, lastAction, issued, nCalls>>

(***************************************************************************)
(* The screen.                                                             *)
(***************************************************************************)
\* the floating add button: setIsFormOpen(true)
PressAdd ==
  /\ NoModal
  /\ isFormOpen' = TRUE
  /\ UNCHANGED <<tickets, editingTicket, deleteConfirm>>
  /\ Quiet

\* a card's Edit button: openEditForm(item)
openEditForm(i) ==
  /\ NoModal
  /\ editingTicket' = tickets[i]
  /\ isFormOpen' = TRUE
  /\ UNCHANGED <<tickets, deleteConfirm>>
  /\ Quiet

\* the form's X and Cancel buttons and the modal's close request
closeForm ==
  /\ isFormOpen
  /\ isFormOpen' = FALSE
  /\ editingTicket' = Undefined
  /\ UNCHANGED <<tickets, deleteConfirm>>
  /\ Quiet

\* handleSubmit returning early: nothing is saved and the form stays open
handleSubmitRejected(form) ==
  /\ isFormOpen
  /\ SubmitRejected(form)
  /\ prev' = tickets
  /\ lastAction' = [op |-> "rejected", editing |-> isEditing(editingTicket)]
  /\ UNCHANGED <<tickets, isFormOpen, editingTicket, deleteConfirm, issued, nCalls>>

\* handleSubmit with onSave = handleCreateTicket, then onClose
handleSubmitCreate(form, now, random, date) ==
  /\ isFormOpen
  /\ ~SubmitRejected(form)
  /\ ~isEditing(editingTicket)
  /\ LET id == generateId(now, random)
     IN  /\ tickets' = handleCreateTicket(tickets, SubmitData(form), id, formatDate(date))
         /\ lastAction' = [op |-> "create", id |-> id, form |-> form]
         /\ issued' = Append(issued, id)
  /\ prev' = tickets
  /\ nCalls' = nCalls + 1
  /\ isFormOpen' = FALSE
  /\ editingTicket' = Undefined
  /\ UNCHANGED deleteConfirm

\* handleSubmit with onSave = handleUpdateTicket, then onClose
handleSubmitUpdate(form) ==
  /\ isFormOpen
  /\ ~SubmitRejected(form)
  /\ isEditing(editingTicket)
  /\ tickets' = handleUpdateTicket(tickets, editingTicket, SubmitData(form))
  /\ lastAction' = [op |-> "update", id |-> editingTicket.id, form |-> form]
  /\ prev' = tickets
  /\ nCalls' = nCalls + 1
  /\ isFormOpen' = FALSE
  /\ editingTicket' = Undefined
  /\ UNCHANGED <<deleteConfirm, issued>>

\* a card's trash icon: setDeleteConfirm({ visible: true, ticketId: item.id })
PressDelete(i) ==
  /\ NoModal
  /\ deleteConfirm' = [visible |-> TRUE, ticketId |-> tickets[i].id]
  /\ UNCHANGED <<tickets, isFormOpen, editingTicket>>
  /\ Quiet

\* the dialog's Cancel button
CancelDelete ==
  /\ deleteConfirm.visible
  /\ deleteConfirm' = [visible |-> FALSE]
  /\ UNCHANGED <<tickets, isFormOpen, editingTicket>>
  /\ Quiet

\* the dialog's Delete button: onConfirm(), then onClose(); onConfirm calls
\* handleDeleteTicket when deleteConfirm.ticketId is set (an id is never the
\* empty string, so a ticketId that is set is truthy)
ConfirmDelete ==
  /\ deleteConfirm.visible
  /\ "ticketId" \in DOMAIN deleteConfirm
  /\ tickets' = handleDeleteTicket(tickets, deleteConfirm.ticketId)
  /\ lastAction' = [op |-> "delete", id |-> deleteConfirm.ticketId]
  /\ prev' = tickets
  /\ nCalls' = nCalls + 1
  /\ deleteConfirm' = [visible |-> FALSE]
  /\ UNCHANGED <<isFormOpen, editingTicket, issued>>

\* getActionButton: Start on a Created ticket
PressStart(i) ==
  /\ NoModal
  /\ tickets[i].status = "Created"
  /\ tickets' = handleStatusChange(tickets, tickets[i].id, "Under Assistance")
  /\ lastAction' = [op |-> "status", id |-> tickets[i].id,
                    status |-> "Under Assistance", index |-> i]
  /\ prev' = tickets
  /\ nCalls' = nCalls + 1
  /\ UNCHANGED <<isFormOpen, editingTicket, deleteConfirm, issued>>

\* mutant of PressComplete: the button is there whatever the status
PressCompleteAnyStatus(i) ==
  /\ NoModal
  /\ tickets' = handleStatusChange(tickets, tickets[i].id, "Completed")
  /\ lastAction' = [op |-> "status", id |-> tickets[i].id,
                    status |-> "Completed", index |-> i]
  /\ prev' = tickets
  /\ nCalls' = nCalls + 1
  /\ UNCHANGED <<isFormOpen, editingTicket, deleteConfirm, issued>>

\* getActionButton: Complete on an Under Assistance ticket
PressComplete(i) ==
  /\ NoModal
  /\ tickets[i].status = "Under Assistance"
  /\ tickets' = handleStatusChange(tickets, tickets[i].id, "Completed")
  /\ lastAction' = [op |-> "status", id |-> tickets[i].id,
                    status |-> "Completed", index |-> i]
  /\ prev' = tickets
  /\ nCalls' = nCalls + 1
  /\ UNCHANGED <<isFormOpen, editingTicket, deleteConfirm, issued>>

\* a star of the rating box: rendered when Completed, enabled when !ticket.rating
PressStar(i, star) ==
  /\ NoModal
  /\ tickets[i].status = "Completed"
  /\ FalsyRating(tickets[i])
  /\ tickets' = handleRate(tickets, tickets[i].id, star)
  /\ lastAction' = [op |-> "rate", id |-> tickets[i].id, rating |-> star,
                    index |-> i, after |-> 0]
  /\ prev' = tickets
  /\ nCalls' = nCalls + 1
  /\ UNCHANGED <<isFormOpen, editingTicket, deleteConfirm, issued>>

Next ==
  \/ PressAdd
  \/ \E i \in 1 .. Len(tickets) : openEditForm(i)
  \/ closeForm
  \/ isFormOpen /\ \E form \in FormStates(editingTicket) :
       handleSubmitRejected(form)
  \/ isFormOpen /\ nCalls < MaxCalls
       /\ \E form \in FormStates(editingTicket), now \in Times,
             random \in RandomStrings, date \in Dates :
            handleSubmitCreate(form, now, random, date)
  \/ isFormOpen /\ nCalls < MaxCalls
       /\ \E form \in FormStates(editingTicket) : handleSubmitUpdate(form)
  \/ \E i \in 1 .. Len(tickets) : PressDelete(i)
  \/ CancelDelete
  \/ nCalls < MaxCalls /\ ConfirmDelete
  \/ nCalls < MaxCalls /\ \E i \in 1 .. Len(tickets) : PressStart(i)
  \/ nCalls < MaxCalls /\ \E i \in 1 .. Len(tickets) : PressComplete(i)
  \/ nCalls < MaxCalls
       /\ \E i \in 1 .. Len(tickets), star \in Stars : PressStar(i, star)

Spec == Init /\ [][Next]_vars

(***************************************************************************)
(* The handlers called directly, with any arguments: the store's           *)
(* operations (create, update, remove, setStatus, setRating) without the   *)
(* screen in front of them.                                                *)
(***************************************************************************)
SampleIds == { SAMPLE_TICKETS[i].id : i \in 1 .. Len(SAMPLE_TICKETS) }

\* an id no ticket ever had
UnknownId == "0"

\* ids of tickets that are or were in the collection, and an unknown one
IdArguments == SampleIds \cup { issued[i] : i \in 1 .. Len(issued) } \cup {UnknownId}

Restrict(r, D) == [f \in D |-> r[f]]

\* Partial<Ticket> values with any subset of title, description and status
Patches ==
  { Restrict(full, D) :
      full \in [title : {<<"Renamed">>}, description : {<<"Rewritten">>},
                status : TicketStatus],
      D \in SUBSET {"title", "description", "status"} }

\* values of editingTicket: none, a ticket of the collection, or a snapshot of
\* a ticket taken earlier
EditingArguments ==
  {Undefined} \cup { tickets[i] : i \in 1 .. Len(tickets) }
              \cup { SAMPLE_TICKETS[i] : i \in 1 .. Len(SAMPLE_TICKETS) }

CreateArguments ==
  { [title |-> <<"Printer jam">>, description |-> <<"Paper stuck in tray 2">>] }

callCreate(data, now, random, date) ==
  /\ LET id == generateId(now, random)
     IN  /\ tickets' = handleCreateTicket(tickets, data, id, formatDate(date))
         /\ lastAction' = [op |-> "create", id |-> id, form |-> data]
         /\ issued' = Append(issued, id)
  /\ prev' = tickets
  /\ nCalls' = nCalls + 1
  /\ UNCHANGED <<isFormOpen, editingTicket, deleteConfirm>>

\* handleUpdateTicket in a render whose editingTicket is `editing`
callUpdate(editing, data) ==
  /\ tickets' = handleUpdateTicket(tickets, editing, data)
  /\ editingTicket' = Undefined
  /\ lastAction' = [op |-> "patch", editing |-> editing, data |-> data]
  /\ prev' = tickets
  /\ nCalls' = nCalls + 1
  /\ UNCHANGED <<isFormOpen, deleteConfirm, issued>>

callDelete(id) ==
  /\ tickets' = handleDeleteTicket(tickets, id)
  /\ lastAction' = [op |-> "delete", id |-> id]
  /\ prev' = tickets
  /\ nCalls' = nCalls + 1
  /\ UNCHANGED <<isFormOpen, editingTicket, deleteConfirm, issued>>

callStatusChange(id, status) ==
  /\ tickets' = handleStatusChange(tickets, id, status)
  /\ lastAction' = [op |-> "status", id |-> id, status |-> status, index |-> 0]
  /\ prev' = tickets
  /\ nCalls' = nCalls + 1
  /\ UNCHANGED <<isFormOpen, editingTicket, deleteConfirm, issued>>

\* `after` is the rating of the call before, when that was a handleRate on the
\* same id, and 0 otherwise
callRate(id, rating) ==
  /\ tickets' = handleRate(tickets, id, rating)
  /\ lastAction' = [op |-> "rate", id |-> id, rating |-> rating, index |-> 0,
                    after |-> IF lastAction.op = "rate"
                                THEN (IF lastAction.id = id
                                        THEN lastAction.rating ELSE 0)
                                ELSE 0]
  /\ prev' = tickets
  /\ nCalls' = nCalls + 1
  /\ UNCHANGED <<isFormOpen, editingTicket, deleteConfirm, issued>>

StoreNext ==
  \/ nCalls < MaxCalls
       /\ \E data \in CreateArguments, now \in Times, random \in RandomStrings,
             date \in Dates : callCreate(data, now, random, date)
  \/ nCalls < MaxCalls
       /\ \E editing \in EditingArguments, data \in Patches :
            callUpdate(editing, data)
  \/ nCalls < MaxCalls /\ \E id \in IdArguments : callDelete(id)
  \/ nCalls < MaxCalls
       /\ \E id \in IdArguments, status \in TicketStatus :
            callStatusChange(id, status)
  \/ nCalls < MaxCalls
       /\ \E id \in IdArguments, rating \in Stars : callRate(id, rating)

StoreSpec == Init /\ [][StoreNext]_vars

(***************************************************************************)
(* The sessions in which generateId returns the id of the first create     *)
(* again (Date.now() and the random suffix both repeat) and the user       *)
(* works on the tickets created in the session only.                       *)
(***************************************************************************)
\* creates in such a session
MaxRepeats == 2
\* handler calls in such a session
MaxSessionCalls == 6

\* positions of the tickets created in the session
Created == { i \in 1 .. Len(tickets) : tickets[i].id \notin SampleIds }

Repeats(id) == IF issued = <<>> THEN TRUE ELSE id = issued[1]

\* another title the user types over the one shown in the edit form
RevisedTitle == <<"Scanner offline">>

\* the edit form after the title input, where it is editable, was retyped
RetitledForms(ticket) ==
  IF isEditing(ticket)
    THEN IF canEditContent(ticket)
           THEN { [form EXCEPT !.title = RevisedTitle] :
                    form \in FormStates(ticket) }
           ELSE {}
    ELSE {}

CollisionNext ==
  \/ Len(issued) < MaxRepeats /\ PressAdd
  \/ \E i \in Created : openEditForm(i)
  \/ isFormOpen /\ nCalls < MaxSessionCalls
       /\ \E form \in FormStates(editingTicket), now \in Times,
             random \in RandomStrings, date \in Dates :
            Repeats(generateId(now, random))
              /\ handleSubmitCreate(form, now, random, date)
  \/ isFormOpen /\ nCalls < MaxSessionCalls
       /\ \E form \in FormStates(editingTicket) : handleSubmitUpdate(form)
  \/ isFormOpen /\ nCalls < MaxSessionCalls
       /\ \E form \in RetitledForms(editingTicket) : handleSubmitUpdate(form)
  \/ nCalls < MaxSessionCalls /\ \E i \in Created : PressStart(i)
  \/ nCalls < MaxSessionCalls /\ \E i \in Created : PressComplete(i)
  \/ nCalls < MaxSessionCalls
       /\ \E i \in Created, star \in Stars : PressStar(i, star)

CollisionSpec == Init /\ [][CollisionNext]_vars

(***************************************************************************)
(* Properties.                                                             *)
(***************************************************************************)
\* empty or whitespace-only
Blank(text) == \A k \in 1 .. Len(text) : text[k] \in Whitespace

\* t is s without the whitespace at its two ends
IsTrimOf(t, s) ==
  /\ \E a \in 0 .. Len(s), b \in 0 .. Len(s) :
       /\ a + Len(t) + b = Len(s)
       /\ \A k \in 1 .. Len(s) :
            IF k <= a \/ k > a + Len(t)
              THEN s[k] \in Whitespace
              ELSE s[k] = t[k - a]
  /\ t # <<>> => (t[1] \notin Whitespace /\ t[Len(t)] \notin Whitespace)

\* C1: every ticket of the collection has a title and a description that are
\* not empty and not whitespace-only.
C1_ContentNeverBlank ==
  \A i \in 1 .. Len(tickets) :
    ~Blank(tickets[i].title) /\ ~Blank(tickets[i].description)

\* a save of the edit form has stored a title the user typed with whitespace
\* around it
C1_Witness ==
  /\ lastAction.op = "update"
  /\ lastAction.form.title \in TitleInputs
  /\ \E i \in 1 .. Len(tickets) :
       /\ tickets[i].id = lastAction.id
       /\ tickets[i].title # prev[i].title
       /\ tickets[i].title # lastAction.form.title

\* the save button pressed with the form in state `form`
Submitted(form) ==
  \/ handleSubmitRejected(form)
  \/ \E now \in Times, random \in RandomStrings, date \in Dates :
       handleSubmitCreate(form, now, random, date)

\* C3: a create whose title or description is empty or whitespace-only
\* changes nothing in the collection.
C3_BlankCreateIsNoOp ==
  [][ \A form \in FormStates(Undefined) :
        ( /\ isFormOpen
          /\ editingTicket = Undefined
          /\ Blank(form.title) \/ Blank(form.description)
          /\ Submitted(form) )
        => tickets' = tickets ]_vars

\* a create was turned down and the form is still open over the same collection
C3_Witness ==
  /\ lastAction.op = "rejected"
  /\ ~lastAction.editing
  /\ isFormOpen
  /\ tickets = prev

\* C4: a successful create puts one new ticket, Created and unrated, with the
\* trimmed title and description, in front of the unchanged previous tickets.
C4_CreatePrepends ==
  lastAction.op = "create" =>
    /\ Len(tickets) = Len(prev) + 1
    /\ tickets[1].status = "Created"
    /\ ~HasRating(tickets[1])
    /\ IsTrimOf(tickets[1].title, lastAction.form.title)
    /\ IsTrimOf(tickets[1].description, lastAction.form.description)
    /\ \A i \in 1 .. Len(prev) : tickets[i + 1] = prev[i]

\* B created after A: the list is [B, A, ...], B's texts trimmed
C4_Witness ==
  /\ lastAction.op = "create"
  /\ Len(issued) = 2
  /\ tickets[1].id = issued[2]
  /\ tickets[2].id = issued[1]
  /\ tickets[1].id # tickets[2].id
  /\ tickets[1].title # lastAction.form.title
  /\ Len(tickets) = Len(SAMPLE_TICKETS) + 2

\* the ids of a list
IdsOf(list) == { list[i].id : i \in 1 .. Len(list) }

\* C2: the tickets of the collection have pairwise distinct ids, and every id
\* generateId returns differs from the sample ids and from every id it
\* returned before.
C2_IdsUnique ==
  /\ \A i \in 1 .. Len(tickets), j \in 1 .. Len(tickets) :
       i # j => tickets[i].id # tickets[j].id
  /\ \A i \in 1 .. Len(issued) :
       /\ issued[i] \notin SampleIds
       /\ \A j \in 1 .. Len(issued) : i # j => issued[i] # issued[j]

\* positions of prev whose ticket does not have the id
Kept(id) == { i \in 1 .. Len(prev) : prev[i].id # id }

\* the number of kept positions up to i
Rank(S, i) == Cardinality({ k \in S : k <= i })

\* C5: after remove(id) no ticket has the id and the other tickets are all
\* there, unchanged and in the same order; with an id that no ticket has the
\* collection is the same as before.
C5_RemoveFrame ==
  lastAction.op = "delete" =>
    LET id == lastAction.id
    IN  /\ id \notin IdsOf(tickets)
        /\ Len(tickets) = Cardinality(Kept(id))
        /\ \A i \in Kept(id) : tickets[Rank(Kept(id), i)] = prev[i]
        /\ id \notin IdsOf(prev) => tickets = prev

\* a ticket between two others was removed
C5_Witness ==
  /\ lastAction.op = "delete"
  /\ \E i \in 2 .. Len(prev) - 1 :
       /\ prev[i].id = lastAction.id
       /\ tickets[i - 1] = prev[i - 1]
       /\ tickets[i] = prev[i + 1]
  /\ Len(tickets) = Len(prev) - 1

\* C6: update overwrites, on the tickets with the edited id, exactly the
\* fields of the patch; every other field, every other ticket and the length
\* and order of the list stay; with no ticket of that id, or none being
\* edited, the collection stays as it was.
C6_UpdateFrame ==
  lastAction.op = "patch" =>
    LET editing == lastAction.editing
        data == lastAction.data
    IN  /\ Len(tickets) = Len(prev)
        /\ \A i \in 1 .. Len(prev) :
             IF editing # Undefined /\ prev[i].id = editing.id
               THEN /\ DOMAIN tickets[i] = DOMAIN prev[i]
                    /\ \A f \in DOMAIN data : tickets[i][f] = data[f]
                    /\ \A f \in (DOMAIN prev[i]) \ (DOMAIN data) :
                         tickets[i][f] = prev[i][f]
               ELSE tickets[i] = prev[i]
        /\ (editing = Undefined \/ editing.id \notin IdsOf(prev)) => tickets = prev

\* a patch of the status alone was applied through a stale snapshot of a
\* rated ticket whose title had been changed since
C6_Witness ==
  /\ lastAction.op = "patch"
  /\ lastAction.editing # Undefined
  /\ DOMAIN lastAction.data = {"status"}
  /\ \E i \in 1 .. Len(prev) :
       /\ prev[i].id = lastAction.editing.id
       /\ prev[i].title # lastAction.editing.title
       /\ HasRating(prev[i])
       /\ tickets[i].status # prev[i].status
       /\ tickets[i].title = prev[i].title
       /\ tickets[i].rating = prev[i].rating

\* C7: setStatus on a present id sets the status to the given value, whatever
\* the status was, and changes nothing else; on an absent id the collection
\* stays as it was.
C7_SetStatusFrame ==
  lastAction.op = "status" =>
    /\ Len(tickets) = Len(prev)
    /\ \A i \in 1 .. Len(prev) :
         IF prev[i].id = lastAction.id
           THEN tickets[i] = [prev[i] EXCEPT !.status = lastAction.status]
           ELSE tickets[i] = prev[i]
    /\ lastAction.id \notin IdsOf(prev) => tickets = prev

\* a Completed ticket was set back to Created
C7_Witness ==
  /\ lastAction.op = "status"
  /\ lastAction.status = "Created"
  /\ \E i \in 1 .. Len(prev) :
       /\ prev[i].id = lastAction.id
       /\ prev[i].status = "Completed"
       /\ tickets[i].status = "Created"

\* C8: setRating on a present id leaves the rating it was given, whatever the
\* status and whatever rating, if any, was there (so the second of two calls
\* wins), and changes nothing else; on an absent id the collection stays as
\* it was.
C8_SetRatingOverwrites ==
  lastAction.op = "rate" =>
    /\ Len(tickets) = Len(prev)
    /\ \A i \in 1 .. Len(prev) :
         IF prev[i].id = lastAction.id
           THEN /\ HasRating(tickets[i])
                /\ tickets[i].rating = lastAction.rating
                /\ DOMAIN tickets[i] = (DOMAIN prev[i]) \cup {"rating"}
                /\ \A f \in (DOMAIN prev[i]) \ {"rating"} :
                     tickets[i][f] = prev[i][f]
           ELSE tickets[i] = prev[i]
    /\ lastAction.id \notin IdsOf(prev) => tickets = prev

\* setRating(id, r) directly followed by setRating(id, r2), r # r2, on a
\* ticket that is not Completed
C8_Witness ==
  /\ lastAction.op = "rate"
  /\ lastAction.after # 0
  /\ lastAction.after # lastAction.rating
  /\ \E i \in 1 .. Len(prev) :
       /\ prev[i].id = lastAction.id
       /\ prev[i].status # "Completed"
       /\ prev[i].rating = lastAction.after
       /\ tickets[i].rating = lastAction.rating

\* where the ticket at position i of prev is in tickets (0: removed)
Successor(i) ==
  CASE lastAction.op = "create" -> i + 1
    [] lastAction.op = "delete" ->
         IF prev[i].id = lastAction.id THEN 0 ELSE Rank(Kept(lastAction.id), i)
    [] OTHER -> i

\* C9: a ticket that has a rating keeps that rating for as long as it exists.
C9_RatingNeverChanges ==
  \A i \in 1 .. Len(prev) :
    (HasRating(prev[i]) /\ Successor(i) # 0) =>
      /\ HasRating(tickets[Successor(i)])
      /\ tickets[Successor(i)].rating = prev[i].rating

\* the Start or Complete button of the card at lastAction.index moved that
\* ticket one step forward
ButtonStepsForward ==
  (lastAction.op = "status" /\ lastAction.index # 0) =>
    LET was == prev[lastAction.index].status
        is == tickets[lastAction.index].status
    IN  \/ was = "Created" /\ is = "Under Assistance"
        \/ was = "Under Assistance" /\ is = "Completed"

\* C10 as claimed: the buttons step forward, and over every action, the edit
\* form's save included, no ticket's status moves backward or skips a state
\* (so none leaves Completed).
C10_StatusOnlyForward ==
  /\ ButtonStepsForward
  /\ \A i \in 1 .. Len(prev) :
       Successor(i) # 0 =>
         StatusRank(tickets[Successor(i)].status) - StatusRank(prev[i].status)
           \in {0, 1}

\* C10 as amended: Start is offered on a Created ticket only and moves it to
\* Under Assistance, Complete on an Under Assistance ticket only and moves it
\* to Completed, a Completed ticket is offered neither; rate, create and
\* delete leave the status of every remaining ticket as it was.
C10_ButtonsStepForward ==
  /\ ButtonStepsForward
  /\ lastAction.op \in {"rate", "create", "delete"} =>
       \A i \in 1 .. Len(prev) :
         Successor(i) # 0 => tickets[Successor(i)].status = prev[i].status

\* Start and then Complete were pressed on the same ticket
C10_Witness ==
  /\ lastAction.op = "status"
  /\ lastAction.index # 0
  /\ nCalls = 2
  /\ prev[lastAction.index].status = "Under Assistance"
  /\ tickets[lastAction.index].status = "Completed"
  /\ \E i \in 1 .. Len(SAMPLE_TICKETS) :
       /\ SAMPLE_TICKETS[i].id = lastAction.id
       /\ SAMPLE_TICKETS[i].status = "Created"

\* the ticket at position i of prev is still there with the title and the
\* description it had
SameContent(i) ==
  Successor(i) # 0 =>
    /\ tickets[Successor(i)].title = prev[i].title
    /\ tickets[Successor(i)].description = prev[i].description

\* C11: the title and the description of a ticket change only in a step taken
\* while the ticket's status is Created; in particular a save of the edit form
\* of a ticket that is Under Assistance or Completed leaves them as they were.
C11_ContentOnlyWhileCreated ==
  \A i \in 1 .. Len(prev) :
    prev[i].status # "Created" => SameContent(i)

\* the ticket at position i of prev is still there with the rating it had,
\* or with none as before
SameRating(i) ==
  Successor(i) # 0 =>
    /\ HasRating(tickets[Successor(i)]) = HasRating(prev[i])
    /\ HasRating(prev[i]) => tickets[Successor(i)].rating = prev[i].rating

\* C12: a press of a star records a rating, one of 1..5, only on tickets that
\* are Completed and have no rating at that moment, and nothing else on the
\* screen records or changes a rating.
C12_RatingOnlyWhenCompletedUnrated ==
  /\ lastAction.op = "rate" =>
       /\ lastAction.rating \in 1 .. 5
       /\ \A i \in 1 .. Len(prev) :
            prev[i].id = lastAction.id =>
              /\ prev[i].status = "Completed"
              /\ ~HasRating(prev[i])
              /\ tickets[i].rating = lastAction.rating
  /\ lastAction.op # "rate" =>
       \A i \in 1 .. Len(prev) : SameRating(i)

====
